---- MODULE Spec2Model ----
(***************************************************************************)
(* message.ly: users, sessions and messages.                               *)
(*                                                                         *)
(* The state is the two tables of the store (users, messages), the clock   *)
(* the store stamps rows with (now), the registrations that are between    *)
(* the hashing of the password and their INSERT (inflight), the number of  *)
(* UPDATEs each user has in the air because User.updateLoginTimestamp was  *)
(* called without await (pending), the tokens handed to clients (issued),  *)
(* the password each user registered with (given, a history variable: the  *)
(* store keeps only its hash), and the last request that ended together    *)
(* with what it answered (last).                                           *)
(*                                                                         *)
(* A handler that runs a single statement against the store is one step,   *)
(* taken when the statement runs. POST /register is two steps, so that     *)
(* registrations overlap. SpecRegister is the registrations, SpecAuth adds *)
(* the logins, and SpecMessages is the message endpoints for three         *)
(* registered users.                                                       *)
(***************************************************************************)
EXTENDS Integers, Sequences, FiniteSets, TLC

VARIABLES users, messages, now, inflight, pending, issued, given, last

vars == <<users, messages, now, inflight, pending, issued, given, last>>

(* ------------------------------ bounds -------------------------------- *)

MaxTime == 1
MaxMessages == 1
MaxInFlight == 2
MaxPending == 1

(* ------------------------------ inputs -------------------------------- *)

Usernames == {"alice", "bob", "carol"}
Passwords == {"pw1", "pw2"}
Bodies == {"hi"}
Salts == {"s1"}
Empty == ""

\* The usernames registrations and logins are tried with.
Registrants == {"alice", "bob"}

\* The usernames messages are sent to.
Recipients == {"alice", "bob"}

\* The profiles a registration is tried with: they differ in every field.
Profiles ==
  {[password |-> "pw1", first_name |-> "Ann", last_name |-> "Lee", phone |-> "555"],
   [password |-> "pw2", first_name |-> "Bo", last_name |-> "Lim", phone |-> "556"]}

(* ------------------------- values of the program ---------------------- *)

\* JavaScript's undefined / SQL's NULL: the empty tuple; a present value v is <<v>>.
Undefined == <<>>

SECRET_KEY == "secret"

\* new ExpressError(message, status)
ExpressError(message, status) ==
  [name |-> "ExpressError", message |-> message, status |-> <<status>>]

\* An error that is not an ExpressError carries no status: the TypeError of
\* reading a property of undefined, and an error raised by the store.
TypeError == [name |-> "TypeError", message |-> "Cannot read property 'username' of undefined", status |-> Undefined]

DbError(code) == [name |-> "DbError", message |-> code, status |-> Undefined]

\* res.json(body)
Json(body) == [kind |-> "json", status |-> 200, body |-> body]

\* next(e): the application's error handler answers with the error's status,
\* 500 when it has none.
NextErr(e) ==
  [kind |-> "error",
   status |-> IF e.status = Undefined THEN 500 ELSE e.status[1],
   body |-> [name |-> e.name, message |-> e.message]]

\* The handler returned without res.json and without next: no answer is sent.
NoResponse == [kind |-> "none", status |-> 0, body |-> Undefined]

(* ------------------------------ bcrypt -------------------------------- *)

\* bcrypt.hash(password, BCRYPT_WORK_FACTOR): a salted one-way digest; the
\* salt is kept in the hash so that compare can derive the digest again.
bcryptHash(password, salt) == [salt |-> salt, digest |-> <<"bcrypt", salt, password>>]

\* bcrypt.compare(password, hash)
bcryptCompare(password, hash) == bcryptHash(password, hash.salt).digest = hash.digest

(* ------------------------------ tokens -------------------------------- *)

\* jwt.sign({ username }, SECRET_KEY)
jwtSign(username) == [username |-> username, sig |-> SECRET_KEY]

NoToken == [username |-> Empty, sig |-> Empty]

\* A token for alice signed with a key that is not the service's.
ForgedTokens == {[username |-> "alice", sig |-> "forged"]}

\* What a request may carry: nothing, a token signed with another key, or a
\* token the service issued.
Tokens == {NoToken} \cup ForgedTokens \cup issued

\* middleware authenticateJWT: req.user is the payload of a token that
\* verifies, and stays undefined otherwise.
authenticateJWT(token) ==
  IF token.sig = SECRET_KEY THEN <<[username |-> token.username]>> ELSE Undefined

(* --------------------------- models/user.js --------------------------- *)

\* insertUser as it would be with ON CONFLICT (username) DO UPDATE: the second
\* registration overwrites the row of the first.
insertUserUpsert(tbl, username, hashedPass, first_name, last_name, phone, t) ==
  [table |-> [u \in DOMAIN tbl \cup {username} |->
                IF u = username
                THEN [password |-> hashedPass, first_name |-> first_name,
                      last_name |-> last_name, phone |-> phone,
                      join_at |-> t, last_login_at |-> t]
                ELSE tbl[u]],
   rows |-> <<[username |-> username, password |-> hashedPass,
               first_name |-> first_name, last_name |-> last_name, phone |-> phone]>>,
   error |-> Undefined]

\* db.query(INSERT INTO users ... VALUES ($1..$5, now(), current_timestamp)
\*          RETURNING username, password, first_name, last_name, phone):
\* username is the table's key, and a second row with the same key is
\* refused with code 23505 (unique_violation) and changes nothing.
insertUser(tbl, username, hashedPass, first_name, last_name, phone, t) ==
  IF username \in DOMAIN tbl
  THEN [table |-> tbl, rows |-> << >>, error |-> <<DbError("23505")>>]
  ELSE [table |-> [u \in DOMAIN tbl \cup {username} |->
                     IF u = username
                     THEN [password |-> hashedPass, first_name |-> first_name,
                           last_name |-> last_name, phone |-> phone,
                           join_at |-> t, last_login_at |-> t]
                     ELSE tbl[u]],
        rows |-> <<[username |-> username, password |-> hashedPass,
                    first_name |-> first_name, last_name |-> last_name,
                    phone |-> phone]>>,
        error |-> Undefined]

\* The statement did not run at all (the connection is lost, the pool is closed).
dbDown(tbl) == [table |-> tbl, rows |-> << >>, error |-> <<DbError("08006")>>]

\* User.register after its query q ended: results.rows[0], or the catch block,
\* which rethrows a 23505 as an ExpressError and falls off its end otherwise,
\* so that the async function resolves to undefined.
register(q) ==
  IF q.error = Undefined
  THEN [returns |-> <<q.rows[1]>>, throws |-> Undefined]
  ELSE IF q.error[1].message = "23505"
       THEN [returns |-> Undefined,
             throws |-> <<ExpressError("Username taken. Please pick another", 400)>>]
       ELSE [returns |-> Undefined, throws |-> Undefined]

\* authenticate as it would be without bcrypt.compare: any password of a
\* registered user passes.
authenticateNoCompare(username, password, tbl) ==
  IF username = Empty \/ password = Empty
  THEN [returns |-> Undefined,
        throws |-> <<ExpressError("Username and password required", 400)>>]
  ELSE [returns |-> <<username \in DOMAIN tbl>>, throws |-> Undefined]

\* User.authenticate(username, password) against the rows SELECTed from tbl.
authenticate(username, password, tbl) ==
  IF username = Empty \/ password = Empty
  THEN [returns |-> Undefined,
        throws |-> <<ExpressError("Username and password required", 400)>>]
  ELSE IF username \in DOMAIN tbl /\ bcryptCompare(password, tbl[username].password)
       THEN [returns |-> <<TRUE>>, throws |-> Undefined]
       ELSE [returns |-> <<FALSE>>, throws |-> Undefined]

\* User.updateLoginTimestamp: UPDATE users SET last_login_at = current_timestamp
\* WHERE username = $1.
updateLoginTimestamp(tbl, username, t) ==
  [u \in DOMAIN tbl |-> IF u = username THEN [tbl[u] EXCEPT !.last_login_at = t] ELSE tbl[u]]

\* User.all: SELECT username, first_name, last_name, phone FROM users.
all(tbl) ==
  [returns |-> <<{[username |-> u, first_name |-> tbl[u].first_name,
                   last_name |-> tbl[u].last_name, phone |-> tbl[u].phone] : u \in DOMAIN tbl}>>,
   throws |-> Undefined]

\* User.get: SELECT username, first_name, last_name, phone, join_at, last_login_at.
get(username, tbl) ==
  IF username \in DOMAIN tbl
  THEN [returns |-> <<[username |-> username, first_name |-> tbl[username].first_name,
                       last_name |-> tbl[username].last_name, phone |-> tbl[username].phone,
                       join_at |-> tbl[username].join_at,
                       last_login_at |-> tbl[username].last_login_at]>>,
        throws |-> Undefined]
  ELSE [returns |-> Undefined, throws |-> <<ExpressError("user not found", 404)>>]

\* A query that failed inside a model method that has no try/catch.
dbThrows == [returns |-> Undefined, throws |-> <<DbError("08006")>>]

(* --------------------------- models/message.js ------------------------ *)

\* The {username, first_name, last_name, phone} a message embeds for a user.
userSummary(tbl, username) ==
  [username |-> username,
   first_name |-> IF username \in DOMAIN tbl THEN <<tbl[username].first_name>> ELSE Undefined,
   last_name |-> IF username \in DOMAIN tbl THEN <<tbl[username].last_name>> ELSE Undefined,
   phone |-> IF username \in DOMAIN tbl THEN <<tbl[username].phone>> ELSE Undefined]

\* Message.create({from_username, to_username, body}): a new row, sent now and unread.
messageCreate(msgs, from_username, to_username, body, t) ==
  [table |-> Append(msgs, [from_username |-> from_username, to_username |-> to_username,
                           body |-> body, sent_at |-> t, read_at |-> Undefined]),
   returns |-> <<[id |-> Len(msgs) + 1, from_username |-> from_username,
                  to_username |-> to_username, body |-> body, sent_at |-> t]>>,
   throws |-> Undefined]

\* Message.get(id): the row with both users embedded, or a 404.
messageGet(msgs, tbl, id) ==
  IF id \in 1..Len(msgs)
  THEN [returns |-> <<[id |-> id, body |-> msgs[id].body, sent_at |-> msgs[id].sent_at,
                       read_at |-> msgs[id].read_at,
                       from_user |-> userSummary(tbl, msgs[id].from_username),
                       to_user |-> userSummary(tbl, msgs[id].to_username)]>>,
        throws |-> Undefined]
  ELSE [returns |-> Undefined, throws |-> <<ExpressError("No such message", 404)>>]

\* Message.markRead(id): read_at becomes the current instant, whatever it was.
messageMarkRead(msgs, id, t) ==
  [table |-> [msgs EXCEPT ![id].read_at = <<t>>],
   returns |-> <<[id |-> id, read_at |-> <<t>>]>>,
   throws |-> Undefined]

\* A statement on messages that did not run.
messagesDown(msgs) == [table |-> msgs, returns |-> Undefined, throws |-> <<DbError("08006")>>]

(* ------------------------------ state --------------------------------- *)

NoCall == [call |-> "none"]

Init ==
  /\ users = << >>
  /\ messages = << >>
  /\ now = 0
  /\ inflight = {}
  /\ pending = [u \in Usernames |-> 0]
  /\ issued = {}
  /\ given = << >>
  /\ last = NoCall

\* The store's clock moves on.
Tick ==
  /\ now < MaxTime
  /\ now' = now + 1
  /\ UNCHANGED <<users, messages, inflight, pending, issued, given, last>>

(* --------------------------- routes/auth.js --------------------------- *)

ValidRegisterBody ==
  [username |-> "alice", password |-> "pw1", first_name |-> "Ann", last_name |-> "Lee",
   phone |-> "555"]

\* The bodies POST /register is tried with: every registrant with every
\* profile, and a body without the first and one without the last of the
\* required fields.
RegisterBodies ==
  {[username |-> u, password |-> p.password, first_name |-> p.first_name,
    last_name |-> p.last_name, phone |-> p.phone] : u \in Registrants, p \in Profiles}
  \cup {[ValidRegisterBody EXCEPT ![f] = Empty] :
          f \in {"username", "phone"}}

\* The bodies POST /login is tried with.
LoginBodies ==
  [username : Registrants, password : Passwords]
  \cup {[username |-> Empty, password |-> "pw1"], [username |-> "alice", password |-> Empty]}

\* POST /register up to its first await: the check of the fields, then
\* User.register hashes the password.
PostRegister(body) ==
  IF \/ body.username = Empty \/ body.password = Empty \/ body.first_name = Empty
     \/ body.last_name = Empty \/ body.phone = Empty
  THEN /\ last' = [call |-> "POST /register", req |-> body,
                   res |-> NextErr(ExpressError("please input all required information", 400)),
                   user |-> Undefined]
       /\ UNCHANGED <<users, messages, now, inflight, pending, issued, given>>
  ELSE /\ Cardinality(inflight) < MaxInFlight
       /\ \E salt \in Salts :
            inflight' = inflight \cup
              {[body |-> body, hashedPass |-> bcryptHash(body.password, salt)]}
       /\ UNCHANGED <<users, messages, now, pending, issued, given, last>>

\* What POST /register does with the outcome of User.register: a token and an
\* unawaited User.updateLoginTimestamp when it returned a user, next(e) when
\* it threw, and nothing at all when it returned undefined.
registerResponse(username, out) ==
  IF out.throws # Undefined THEN NextErr(out.throws[1])
  ELSE IF out.returns # Undefined
       THEN Json([message |-> "registered!", token |-> jwtSign(username)])
       ELSE NoResponse

\* POST /register from the INSERT on.
RegisterInsert(r, q) ==
  LET out == register(q)
      username == r.body.username
      res == registerResponse(username, out)
  IN /\ users' = q.table
     /\ inflight' = inflight \ {r}
     /\ last' = [call |-> "POST /register", req |-> r.body, res |-> res, user |-> out.returns]
     /\ IF res.kind = "json"
        THEN /\ pending[username] < MaxPending
             /\ pending' = [pending EXCEPT ![username] = @ + 1]
             /\ issued' = issued \cup {res.body.token}
        ELSE UNCHANGED <<pending, issued>>
     /\ given' = IF q.error = Undefined
                 THEN [u \in DOMAIN given \cup {username} |->
                         IF u = username THEN r.body.password ELSE given[u]]
                 ELSE given
     /\ UNCHANGED <<messages, now>>

RegisterStep ==
  \E r \in inflight :
    \E q \in {insertUser(users, r.body.username, r.hashedPass, r.body.first_name,
                         r.body.last_name, r.body.phone, now),
              dbDown(users)} :
      RegisterInsert(r, q)

\* What POST /login does with the outcome of User.authenticate.
loginResponse(username, out) ==
  IF out.throws # Undefined THEN NextErr(out.throws[1])
  ELSE IF out.returns[1]
       THEN Json([message |-> "Logged in!", token |-> jwtSign(username)])
       ELSE NextErr(ExpressError("Invalid username/password", 400))

\* POST /login: the check of the fields, User.authenticate (one SELECT, the
\* handler's only statement), then the token and an unawaited
\* User.updateLoginTimestamp, whose UPDATE is only issued when the handler answers.
PostLogin(body) ==
  IF body.username = Empty \/ body.password = Empty
  THEN /\ last' = [call |-> "POST /login", req |-> body,
                   res |-> NextErr(ExpressError("Username and password required", 400))]
       /\ UNCHANGED <<users, messages, now, inflight, pending, issued, given>>
  ELSE \E out \in {authenticate(body.username, body.password, users), dbThrows} :
         LET res == loginResponse(body.username, out)
         IN /\ last' = [call |-> "POST /login", req |-> body, res |-> res]
            /\ IF res.kind = "json"
               THEN /\ pending[body.username] < MaxPending
                    /\ pending' = [pending EXCEPT ![body.username] = @ + 1]
                    /\ issued' = issued \cup {res.body.token}
               ELSE UNCHANGED <<pending, issued>>
            /\ UNCHANGED <<users, messages, now, inflight, given>>

\* An UPDATE issued by an unawaited User.updateLoginTimestamp reaches the
\* store; when it fails, the rejection has no handler and nothing changes.
LoginTimestampLands ==
  \E username \in Usernames :
    /\ pending[username] > 0
    /\ pending' = [pending EXCEPT ![username] = @ - 1]
    /\ \E ok \in BOOLEAN :
         users' = IF ok THEN updateLoginTimestamp(users, username, now) ELSE users
    /\ UNCHANGED <<messages, now, inflight, issued, given, last>>

\* Registrations alone, with the UPDATEs they issue.
NextRegister ==
  \/ Tick
  \/ \E body \in RegisterBodies : PostRegister(body)
  \/ RegisterStep
  \/ LoginTimestampLands

SpecRegister == Init /\ [][NextRegister]_vars

\* Registrations and logins.
NextAuth ==
  \/ Tick
  \/ \E body \in RegisterBodies : PostRegister(body)
  \/ RegisterStep
  \/ \E body \in LoginBodies : PostLogin(body)
  \/ LoginTimestampLands

SpecAuth == Init /\ [][NextAuth]_vars

(* ------------------------- routes/messages.js ------------------------- *)

\* middleware ensureLoggedIn: a request without req.user is answered 401.
ensureLoggedIn(user) ==
  IF user = Undefined THEN <<ExpressError("Unauthorized", 401)>> ELSE Undefined

\* getMessage as it would be without the check of the caller.
getMessageUngated(user, out) ==
  IF out.throws # Undefined THEN NextErr(out.throws[1])
  ELSE IF user = Undefined THEN NextErr(TypeError)
  ELSE Json(out.returns[1])

\* GET /messages/:id, once Message.get ended with out: the sender and the
\* recipient get the message, any other user a 401; req.user.username of an
\* undefined req.user is a TypeError, caught and handed to next.
getMessage(user, out) ==
  IF out.throws # Undefined THEN NextErr(out.throws[1])
  ELSE IF user = Undefined THEN NextErr(TypeError)
  ELSE IF \/ user[1].username = out.returns[1].from_user.username
          \/ user[1].username = out.returns[1].to_user.username
       THEN Json(out.returns[1])
       ELSE NextErr(ExpressError("Not Authorized", 401))

\* mayMarkRead as it would be with the check of GET /messages/:id: the
\* sender passes too.
mayMarkReadEitherParty(user, out) ==
  /\ out.throws = Undefined
  /\ user # Undefined
  /\ \/ user[1].username = out.returns[1].to_user.username
     \/ user[1].username = out.returns[1].from_user.username

\* POST /messages/:id/read, once Message.get ended with out: whether the
\* handler goes on to Message.markRead.
mayMarkRead(user, out) ==
  /\ out.throws = Undefined
  /\ user # Undefined
  /\ user[1].username = out.returns[1].to_user.username

\* POST /messages/:id/read when it does not reach Message.markRead.
readRefused(user, out) ==
  IF out.throws # Undefined THEN NextErr(out.throws[1])
  ELSE IF user = Undefined THEN NextErr(TypeError)
  ELSE NextErr(ExpressError("Not Authorized", 401))

\* senderOf as it would be if the handler passed req.body on to Message.create.
senderFromBody(user, body) == body.from_username

\* The sender POST /messages gives the new message: req.user.username.
senderOf(user, body) == user[1].username

\* The bodies POST /messages is tried with: each names alice as the sender.
MessageBodies == [from_username : {"alice"}, to_username : Recipients, body : Bodies]

\* An id of every message, and one of no message.
Ids == 1..(Len(messages) + 1)

GetMessage ==
  \E token \in Tokens, id \in Ids :
    \E out \in {messageGet(messages, users, id), dbThrows} :
      /\ last' = [call |-> "GET /messages/:id", req |-> [token |-> token, id |-> id],
                  got |-> out.returns, res |-> getMessage(authenticateJWT(token), out)]
      /\ UNCHANGED <<users, messages, now, inflight, pending, issued, given>>

PostMessage ==
  \E token \in Tokens, body \in MessageBodies :
    LET user == authenticateJWT(token)
        refused == ensureLoggedIn(user)
    IN IF refused # Undefined
       THEN /\ last' = [call |-> "POST /messages", req |-> [token |-> token, body |-> body],
                        got |-> Undefined, res |-> NextErr(refused[1])]
            /\ UNCHANGED <<users, messages, now, inflight, pending, issued, given>>
       ELSE /\ Len(messages) < MaxMessages
            /\ \E q \in {messageCreate(messages, senderOf(user, body), body.to_username,
                                       body.body, now),
                         messagesDown(messages)} :
                 /\ messages' = q.table
                 /\ last' = [call |-> "POST /messages", req |-> [token |-> token, body |-> body],
                             got |-> Undefined,
                             res |-> IF q.throws # Undefined THEN NextErr(q.throws[1])
                                     ELSE Json(q.returns[1])]
            /\ UNCHANGED <<users, now, inflight, pending, issued, given>>

\* The two statements of the handler are taken in one step: between them the
\* handler keeps only the recipient's username, which no statement changes.
PostRead ==
  \E token \in Tokens, id \in Ids :
    \E out \in {messageGet(messages, users, id), dbThrows} :
      LET user == authenticateJWT(token)
      IN IF mayMarkRead(user, out)
         THEN \E q \in {messageMarkRead(messages, id, now), messagesDown(messages)} :
                /\ messages' = q.table
                /\ last' = [call |-> "POST /messages/:id/read", req |-> [token |-> token, id |-> id],
                            got |-> out.returns,
                            res |-> IF q.throws # Undefined THEN NextErr(q.throws[1])
                                    ELSE Json(q.returns[1])]
                /\ UNCHANGED <<users, now, inflight, pending, issued, given>>
         ELSE /\ last' = [call |-> "POST /messages/:id/read", req |-> [token |-> token, id |-> id],
                          got |-> out.returns, res |-> readRefused(user, out)]
              /\ UNCHANGED <<users, messages, now, inflight, pending, issued, given>>

\* The service once alice, bob and carol have registered with the first
\* profile and the UPDATEs of their registrations have landed; no message
\* endpoint has been called yet.
InitMessages ==
  /\ users = [u \in Usernames |->
                [password |-> bcryptHash("pw1", "s1"), first_name |-> "Ann",
                 last_name |-> "Lee", phone |-> "555", join_at |-> 0, last_login_at |-> 0]]
  /\ messages = << >>
  /\ now = 0
  /\ inflight = {}
  /\ pending = [u \in Usernames |-> 0]
  /\ issued = {jwtSign(u) : u \in Usernames}
  /\ given = [u \in Usernames |-> "pw1"]
  /\ last = NoCall

NextMessages ==
  \/ Tick
  \/ GetMessage
  \/ PostMessage
  \/ PostRead

SpecMessages == InitMessages /\ [][NextMessages]_vars

(* ------------------------------ claims -------------------------------- *)

\* The caller of the last request, when its token verifies.
Caller == last.req.token.username

Authenticated == authenticateJWT(last.req.token) # Undefined

\* C1: GET /messages/:id by an authenticated caller, for a message the store
\* returned: the answer is the message (status 200) when the caller is the
\* message's sender or its recipient, and otherwise a 401 error that carries
\* nothing of the message.
C1_ViewGate ==
  (last.call = "GET /messages/:id" /\ Authenticated /\ last.got # Undefined) =>
    LET m == messages[last.req.id]
    IN IF Caller = m.from_username \/ Caller = m.to_username
       THEN /\ last.res.kind = "json"
            /\ last.res.status = 200
            /\ last.res.body = last.got[1]
            /\ last.res.body.id = last.req.id
            /\ last.res.body.body = m.body
            /\ last.res.body.from_user.username = m.from_username
            /\ last.res.body.to_user.username = m.to_username
       ELSE /\ last.res.kind = "error"
            /\ last.res.status = 401
            /\ last.res.body = [name |-> "ExpressError", message |-> "Not Authorized"]

\* C1's case: a registered user who is neither the sender nor the recipient
\* asked for a message that exists, and was refused.
C1_ThirdPartyRefused ==
  /\ last.call = "GET /messages/:id"
  /\ last.req.token \in issued
  /\ last.got # Undefined
  /\ Caller # messages[last.req.id].from_username
  /\ Caller # messages[last.req.id].to_username
  /\ messages[last.req.id].from_username # messages[last.req.id].to_username
  /\ last.res.status = 401

\* C2: POST /messages/:id/read by an authenticated caller, for a message the
\* store returned: when the caller is the recipient the message is marked
\* (the answer is its id and its new read_at), unless the UPDATE itself
\* failed in the store; any other caller, the sender included, gets a 401
\* and read_at stays what it was when the handler read the message.
C2_ReadGate ==
  (last.call = "POST /messages/:id/read" /\ Authenticated /\ last.got # Undefined) =>
    LET m == messages[last.req.id]
    IN IF Caller = m.to_username
       THEN \/ /\ last.res.kind = "json"
               /\ m.read_at # Undefined
               /\ last.res.body = [id |-> last.req.id, read_at |-> m.read_at]
            \/ /\ last.res.kind = "error"
               /\ last.res.body.name = "DbError"
               /\ m.read_at = last.got[1].read_at
       ELSE /\ last.res.kind = "error"
            /\ last.res.status = 401
            /\ m.read_at = last.got[1].read_at

\* C2's case: the sender of a message to somebody else tried to mark it as
\* read and was refused.
C2_SenderRefused ==
  /\ last.call = "POST /messages/:id/read"
  /\ last.req.token \in issued
  /\ last.got # Undefined
  /\ Caller = messages[last.req.id].from_username
  /\ Caller # messages[last.req.id].to_username
  /\ last.res.status = 401
  /\ messages[last.req.id].read_at = Undefined

\* C3: every step that stores a message is a POST /messages whose token the
\* service issued, and the stored row and the answer both name that token's
\* user as the sender, whatever sender the body names; the sender of a
\* stored message never changes afterwards.
C3_SenderIsCaller ==
  [][/\ \A i \in 1..Len(messages) :
          /\ i <= Len(messages')
          /\ messages'[i].from_username = messages[i].from_username
     /\ Len(messages') > Len(messages) =>
          /\ Len(messages') = Len(messages) + 1
          /\ last'.call = "POST /messages"
          /\ last'.req.token \in issued
          /\ messages'[Len(messages')].from_username = last'.req.token.username
          /\ last'.res.kind = "json"
          /\ last'.res.body.from_username = last'.req.token.username]_vars

\* C3's case: a message was stored for a request whose body named another
\* user as the sender.
C3_SpoofedSenderIgnored ==
  /\ last.call = "POST /messages"
  /\ last.res.kind = "json"
  /\ last.req.body.from_username # Caller
  /\ messages[last.res.body.id].from_username = Caller

\* C7 as stated: once a message's read_at is set, no step changes it.
C7_ReadAtSetOnce ==
  [][\A i \in 1..Len(messages) :
       messages[i].read_at # Undefined => messages'[i].read_at = messages[i].read_at]_vars

\* C8 as stated, where the store answers and the message asked for exists: a
\* request to one of the three message endpoints whose token is missing or
\* does not verify is answered 401, and the handler has not read the message.
C8_UnauthenticatedRefused ==
  (/\ last.call \in {"GET /messages/:id", "POST /messages", "POST /messages/:id/read"}
   /\ ~Authenticated
   /\ last.call # "POST /messages" => last.req.id \in 1..Len(messages)
   /\ last.res.body.name # "DbError") =>
    /\ last.res.status = 401
    /\ last.got = Undefined

\* The fields of a user's row that registration sets for good.
Profile(row) ==
  [password |-> row.password, first_name |-> row.first_name, last_name |-> row.last_name,
   phone |-> row.phone, join_at |-> row.join_at]

AuthenticateAsClaimed(u, p) ==
  authenticate(u, p, users) =
    [returns |-> <<u \in DOMAIN given /\ given[u] = p>>, throws |-> Undefined]

\* C5 as stated, for every username the function can be given, the empty one
\* included: authenticate returns whether u is registered with password p,
\* and never throws.
C5_AuthenticateAnyUsername ==
  \A u \in Usernames \cup {Empty}, p \in Passwords : AuthenticateAsClaimed(u, p)

\* C5, amended: in every reachable state, for every non-empty username u and
\* non-empty password p, authenticate(u, p) returns true when u is registered
\* and p is the password u registered with, returns false otherwise (for a
\* username that never registered too), and does not throw; and POST /login
\* answers with a token only for the password the user registered with.
C5_AuthenticateMatches ==
  /\ \A u \in Usernames, p \in Passwords : AuthenticateAsClaimed(u, p)
  /\ (last.call = "POST /login" /\ last.res.kind = "json") =>
       /\ last.req.username \in DOMAIN given
       /\ given[last.req.username] = last.req.password

\* C5's case: POST /login called authenticate for a registered user with a
\* password that is not the one of the registration, and got false.
C5_WrongPasswordRefused ==
  /\ last.call = "POST /login"
  /\ last.req.username \in DOMAIN given
  /\ last.req.password # Empty
  /\ last.req.password # given[last.req.username]
  /\ last.res.body = [name |-> "ExpressError", message |-> "Invalid username/password"]
  /\ authenticate(last.req.username, given[last.req.username], users).returns = <<TRUE>>

\* C6 as stated: neither what User.register returned to POST /register, nor
\* what User.get returns, nor a row of User.all has a password field.
C6_NoHashReturned ==
  /\ (last.call = "POST /register" /\ last.user # Undefined) =>
       "password" \notin DOMAIN last.user[1]
  /\ \A u \in DOMAIN users : "password" \notin DOMAIN get(u, users).returns[1]
  /\ \A row \in all(users).returns[1] : "password" \notin DOMAIN row

\* C9 as stated: a POST /register with every field present that has ended,
\* has ended with a token or with an error handed to next.
C9_RegisterAlwaysAnswers ==
  last.call = "POST /register" => last.res.kind \in {"json", "error"}

\* C10 as stated, for a login later than the registration: in the state in
\* which POST /login answers with a token, the user's last_login_at is not
\* earlier than that login and is later than join_at. (A step is such an
\* answer exactly when it leaves POST /login as the last call and issues one
\* more UPDATE for the user.)
C10_LoginStamped ==
  [][\A u \in DOMAIN users :
       (/\ last'.call = "POST /login"
        /\ pending'[u] = pending[u] + 1
        /\ now > users[u].join_at) =>
         /\ last'.res.kind = "json"
         /\ last'.req.username = u
         /\ users'[u].last_login_at >= now
         /\ users'[u].last_login_at > users'[u].join_at]_vars

====
